---- MODULE Spec2Model ----
(***************************************************************************)
(* The tool-calling core of the course RAG chatbot: the two retrieval      *)
(* tools (CourseSearchTool, CourseOutlineTool), the ToolManager registry   *)
(* that dispatches them and aggregates their citations, and the two-phase  *)
(* orchestrator and query coordinator that drive the registry.             *)
(*                                                                         *)
(* The tools and the registry are translated from backend/search_tools.py. *)
(* The retrieval store, the orchestrator (ai_generator) and the            *)
(* coordinator (rag_system) are not part of the sources at hand; they are  *)
(* modelled from the written specification and from the tests' mocks.      *)
(***************************************************************************)
EXTENDS Integers, Sequences, FiniteSets, TLC

(***************************************************************************)
(* Bounds of the model.                                                    *)
(***************************************************************************)
\* longest retrieval result (documents / metadata) a search draws
MaxHits == 2
\* most tool_use blocks in one completion response
MaxInv == 2

(***************************************************************************)
(* Python values.  An optional value (None or v) is <<>> or <<v>>.         *)
(***************************************************************************)
None == <<>>

Some(v) == <<v>>

\* truthiness of an optional string: None and "" are falsy
TruthyStr(o) == o # None /\ o[1] # ""

\* truthiness of an optional integer: None and 0 are falsy
TruthyInt(o) == o # None /\ o[1] # 0

\* str() of an optional integer inside an f-string
PyStr(o) == IF o = None THEN "None" ELSE ToString(o[1])

Min(a, b) == IF a <= b THEN a ELSE b

RECURSIVE Join(_, _)
\* sep.join(parts)
Join(sep, parts) ==
    IF parts = <<>> THEN ""
    ELSE IF Len(parts) = 1 THEN parts[1]
    ELSE parts[1] \o sep \o Join(sep, Tail(parts))

RECURSIVE Flatten(_)
\* the concatenation of a sequence of sequences
Flatten(s) ==
    IF s = <<>> THEN <<>> ELSE s[1] \o Flatten(Tail(s))

\* Source(text=..., link=...)
Source(text, link) == [text |-> text, link |-> link]

(***************************************************************************)
(* The retrieval store (collaborator).  The catalog maps a canonical title *)
(* to its stored metadata; lessons_json is the stored blob: a JSON text    *)
(* that decodes to a lesson list, or a text that does not decode.          *)
(***************************************************************************)
Lesson(n, title, link) ==
    [lesson_number |-> n, lesson_title |-> title, lesson_link |-> link]

JsonList(lessons) == [kind |-> "json_list", lessons |-> lessons]

InvalidJson == [kind |-> "invalid_json", lessons |-> <<>>]

\* a stored value that is not a text at all (a number)
NotAString == [kind |-> "not_string", lessons |-> <<>>]

\* a JSON text that decodes to an object, not to a list: its keys
JsonObject(keys) == [kind |-> "json_object", lessons |-> keys]

CourseMeta(title, link, instructor, blob) ==
    [title |-> title, course_link |-> link, instructor |-> instructor,
     lessons_json |-> blob]

\* lessons in catalog order, which is not numeric order; lesson 2 has no link
McpLessons ==
    << Lesson(Some(0), Some("Intro"), Some("https://mcp/0")),
       Lesson(Some(2), Some("Servers"), None),
       Lesson(Some(1), Some("Clients"), Some("https://mcp/1")) >>

FullCatalog ==
    << [id |-> "MCP", resolved_by |-> {"mcp"}, metadatas |->
           << CourseMeta(Some("MCP"), Some("https://mcp"), Some("Ann"),
                         Some(JsonList(McpLessons))) >>],
       [id |-> "Chroma", resolved_by |-> {"chroma"}, metadatas |->
           << CourseMeta(Some("Chroma"), None, Some("Bob"),
                         Some(JsonList(<<>>))) >>],
       [id |-> "Broken", resolved_by |-> {"broken"}, metadatas |->
           << CourseMeta(Some("Broken"), None, None, Some(InvalidJson)) >>],
       [id |-> "Ghost", resolved_by |-> {"ghost"}, metadatas |-> <<>>],
       [id |-> "Numeric", resolved_by |-> {"numeric"}, metadatas |->
           << CourseMeta(Some("Numeric"), None, Some("Cy"),
                         Some(NotAString)) >>],
       [id |-> "Mapping", resolved_by |-> {"mapping"}, metadatas |->
           << CourseMeta(Some("Mapping"), None, Some("Di"),
                         Some(JsonObject(<< "lessons" >>))) >>] >>

EmptyCatalog == <<>>

Catalogs == {FullCatalog, EmptyCatalog}

\* store._resolve_course_name(course_name): a canonical title or None
ResolveCourseName(cat, course_name) ==
    LET hit == {i \in 1..Len(cat) : course_name \in cat[i].resolved_by}
    IN  IF hit = {} THEN None ELSE Some(cat[CHOOSE i \in hit : TRUE].id)

\* store.get_existing_course_titles()
GetExistingCourseTitles(cat) == [i \in 1..Len(cat) |-> cat[i].id]

\* store.course_catalog.get(ids=[title])['metadatas']
CatalogGet(cat, title) ==
    LET hit == {i \in 1..Len(cat) : cat[i].id = title}
    IN  IF hit = {} THEN <<>> ELSE cat[CHOOSE i \in hit : TRUE].metadatas

\* json.loads(lessons_json): the decoded value and its Python type, or the
\* exception: JSONDecodeError for a text that is not JSON, TypeError for a
\* value that is not a text
JsonLoads(blob) ==
    CASE blob.kind = "json_list" ->
           [raised |-> None, type |-> "list", value |-> blob.lessons]
      [] blob.kind = "json_object" ->
           [raised |-> None, type |-> "dict", value |-> blob.lessons]
      [] blob.kind = "not_string" ->
           [raised |-> Some("TypeError"), type |-> "none", value |-> <<>>]
      [] OTHER ->
           [raised |-> Some("JSONDecodeError"), type |-> "none",
            value |-> <<>>]

\* store.get_lesson_link(course_title, lesson_number): a link or None
GetLessonLink(cat, course_title, lesson_number) ==
    LET metas == CatalogGet(cat, course_title)
        blob == IF metas = <<>> \/ metas[1].lessons_json = None
                THEN JsonList(<<>>) ELSE metas[1].lessons_json[1]
        ls == JsonLoads(blob).value
        hit == IF JsonLoads(blob).type # "list" THEN {}
               ELSE {i \in 1..Len(ls) :
                       ls[i].lesson_number = Some(lesson_number)}
    IN  IF hit = {} THEN None ELSE ls[CHOOSE i \in hit : TRUE].lesson_link

(***************************************************************************)
(* SearchResults, as store.search returns them.                            *)
(***************************************************************************)
Meta(title, lesson) == [course_title |-> title, lesson_number |-> lesson]

\* metadata of a hit: with a linked lesson (number 0), with a lesson that
\* has no link, and without a lesson number
Metas ==
    { Meta(Some("MCP"), Some(0)), Meta(Some("MCP"), Some(2)),
      Meta(Some("Chroma"), None) }

Doc(i) == "doc" \o ToString(i)

SearchResults(documents, metadata, error) ==
    [documents |-> documents, metadata |-> metadata, error |-> error]

\* results without error: k documents and k metadata, k in 0..MaxHits
HitResults ==
    UNION { { SearchResults([i \in 1..k |-> Doc(i)], m, None) :
                m \in [1..k -> Metas] } : k \in 0..MaxHits }

\* results that carry an error: the way the store builds them (no documents),
\* and one that holds a document and its metadata beside the error
ErrorResults ==
    { SearchResults(<<>>, <<>>, Some("No course found matching 'nope'")),
      SearchResults(<< Doc(1) >>, << Meta(Some("MCP"), Some(0)) >>,
                    Some("Search error: timeout")) }

AllResults == HitResults \cup ErrorResults

\* SearchResults.is_empty()
IsEmpty(results) == Len(results.documents) = 0

(***************************************************************************)
(* What one tool execute does: the text it returns (or the exception it    *)
(* raises), the tool's citation list afterwards, the link lookups it made  *)
(* on the store, in call order, and whether it assigned self.last_sources. *)
(***************************************************************************)
Outcome(ret, raised, sources, link_calls, stored) ==
    [ret |-> ret, raised |-> raised, last_sources |-> sources,
     link_calls |-> link_calls, stored |-> stored]

(***************************************************************************)
(* CourseSearchTool                                                        *)
(***************************************************************************)
\* meta.get('course_title', 'unknown')
CourseTitle(meta) ==
    IF meta.course_title = None THEN "unknown" ELSE meta.course_title[1]

\* mutant: the lesson segment is added by truthiness, so lesson 0 loses it
Header_Truthy(meta) ==
    "[" \o CourseTitle(meta)
        \o (IF TruthyInt(meta.lesson_number)
            THEN " - Lesson " \o ToString(meta.lesson_number[1]) ELSE "")
        \o "]"

\* the context header of one hit
Header(meta) ==
    "[" \o CourseTitle(meta)
        \o (IF meta.lesson_number # None
            THEN " - Lesson " \o ToString(meta.lesson_number[1]) ELSE "")
        \o "]"

\* mutant: the lesson part is added by truthiness, so lesson 0 loses it
SourceText_Truthy(meta) ==
    CourseTitle(meta)
        \o (IF TruthyInt(meta.lesson_number)
            THEN " - Lesson " \o ToString(meta.lesson_number[1]) ELSE "")

\* the display text of one hit's Source
SourceText(meta) ==
    CourseTitle(meta)
        \o (IF meta.lesson_number # None
            THEN " - Lesson " \o ToString(meta.lesson_number[1]) ELSE "")

\* the lookups one hit makes: one when it has a lesson number, else none
LinkCalls(cat, meta) ==
    IF meta.lesson_number # None
    THEN << [course_title |-> CourseTitle(meta),
             lesson_number |-> meta.lesson_number[1],
             link |-> GetLessonLink(cat, CourseTitle(meta),
                                    meta.lesson_number[1])] >>
    ELSE <<>>

\* mutant: the lookup is made by truthiness, so lesson 0 gets no link
LessonLink_Truthy(cat, meta) ==
    IF TruthyInt(meta.lesson_number) THEN LinkCalls(cat, meta)[1].link
    ELSE None

\* lesson_link of one hit: the lookup's result, None without a lesson number
LessonLink(cat, meta) ==
    IF LinkCalls(cat, meta) # <<>> THEN LinkCalls(cat, meta)[1].link ELSE None

\* mutant: the Sources are appended to the list the tool already holds
FormatResults_Append(self_sources, cat, results) ==
    LET n == Min(Len(results.documents), Len(results.metadata))
        formatted == [i \in 1..n |->
                        Header(results.metadata[i]) \o "\n"
                            \o results.documents[i]]
        sources == [i \in 1..n |->
                      Source(SourceText(results.metadata[i]),
                             LessonLink(cat, results.metadata[i]))]
        calls == Flatten([i \in 1..n |-> LinkCalls(cat, results.metadata[i])])
    IN  Outcome(Join("\n\n", formatted), None, self_sources \o sources, calls,
                TRUE)

\* CourseSearchTool._format_results
FormatResults(self_sources, cat, results) ==
    LET n == Min(Len(results.documents), Len(results.metadata))
        formatted == [i \in 1..n |->
                        Header(results.metadata[i]) \o "\n"
                            \o results.documents[i]]
        sources == [i \in 1..n |->
                      Source(SourceText(results.metadata[i]),
                             LessonLink(cat, results.metadata[i]))]
        calls == Flatten([i \in 1..n |-> LinkCalls(cat, results.metadata[i])])
    IN  Outcome(Join("\n\n", formatted), None, sources, calls, TRUE)

\* the filter_info suffix of the empty-result message
FilterInfo(args) ==
    (IF TruthyStr(args.course_name)
     THEN " in course '" \o args.course_name[1] \o "'" ELSE "")
    \o (IF TruthyInt(args.lesson_number)
        THEN " in lesson " \o ToString(args.lesson_number[1]) ELSE "")

\* mutant: the empty-result check comes before the error check
SearchExecute_EmptyFirst(self_sources, cat, args, results) ==
    IF IsEmpty(results)
    THEN Outcome("No relevant content found" \o FilterInfo(args) \o ".",
                 None, self_sources, <<>>, FALSE)
    ELSE IF TruthyStr(results.error)
    THEN Outcome(results.error[1], None, self_sources, <<>>, FALSE)
    ELSE FormatResults(self_sources, cat, results)

\* mutant: the error path empties the tool's list before it returns
SearchExecute_ErrorClears(self_sources, cat, args, results) ==
    IF TruthyStr(results.error)
    THEN Outcome(results.error[1], None, <<>>, <<>>, TRUE)
    ELSE IF IsEmpty(results)
    THEN Outcome("No relevant content found" \o FilterInfo(args) \o ".",
                 None, self_sources, <<>>, FALSE)
    ELSE FormatResults(self_sources, cat, results)

\* CourseSearchTool.execute; results is what store.search returned
SearchExecute(self_sources, cat, args, results) ==
    IF TruthyStr(results.error)
    THEN Outcome(results.error[1], None, self_sources, <<>>, FALSE)
    ELSE IF IsEmpty(results)
    THEN Outcome("No relevant content found" \o FilterInfo(args) \o ".",
                 None, self_sources, <<>>, FALSE)
    ELSE FormatResults(self_sources, cat, results)

(***************************************************************************)
(* CourseOutlineTool                                                       *)
(***************************************************************************)
\* the course header of the outline; the link line only for a truthy link
OutlineHead(course_title, course_link, instructor) ==
    << "Course: " \o course_title >>
        \o (IF TruthyStr(course_link)
            THEN << "Link: " \o course_link[1] >> ELSE <<>>)
        \o << "Instructor: " \o instructor, "", "Lessons:" >>

\* the listing: one line per lesson in the order given, or the placeholder
OutlineLines(lessons) ==
    IF lessons # <<>>
    THEN [i \in 1..Len(lessons) |->
            "- Lesson " \o PyStr(lessons[i].lesson_number) \o ": "
              \o (IF lessons[i].lesson_title = None
                  THEN "Untitled" ELSE lessons[i].lesson_title[1])]
    ELSE << "- No lessons available" >>

\* one Source per lesson with a truthy link, in the order given
OutlineSources(course_title, lessons) ==
    Flatten([i \in 1..Len(lessons) |->
               IF TruthyStr(lessons[i].lesson_link)
               THEN << Source(course_title \o " - Lesson "
                                \o PyStr(lessons[i].lesson_number),
                              lessons[i].lesson_link) >>
               ELSE <<>>])

RECURSIVE SortByNumber(_)
\* the lessons in ascending order of their lesson numbers
SortByNumber(lessons) ==
    IF lessons = <<>> THEN <<>>
    ELSE LET m == CHOOSE i \in 1..Len(lessons) :
                    \A j \in 1..Len(lessons) :
                      lessons[i].lesson_number[1]
                        <= lessons[j].lesson_number[1]
         IN  << lessons[m] >>
               \o SortByNumber(SubSeq(lessons, 1, m - 1)
                                 \o SubSeq(lessons, m + 1, Len(lessons)))

\* mutant: the lessons are listed in numeric order
FormatOutline_Sorted(self_sources, course_title, course_link, instructor, lessons) ==
    Outcome(Join("\n", OutlineHead(course_title, course_link, instructor)
                         \o OutlineLines(SortByNumber(lessons))),
            None, OutlineSources(course_title, SortByNumber(lessons)), <<>>,
            TRUE)

\* mutant: the Sources are appended to the list the tool already holds
FormatOutline_Append(self_sources, course_title, course_link, instructor, lessons) ==
    Outcome(Join("\n", OutlineHead(course_title, course_link, instructor)
                         \o OutlineLines(lessons)),
            None, self_sources \o OutlineSources(course_title, lessons), <<>>,
            TRUE)

\* CourseOutlineTool._format_outline
FormatOutline(self_sources, course_title, course_link, instructor, lessons) ==
    Outcome(Join("\n", OutlineHead(course_title, course_link, instructor)
                         \o OutlineLines(lessons)),
            None, OutlineSources(course_title, lessons), <<>>, TRUE)

\* mutant: the titles are listed also when there is none, and run together
CourseNotFound_Unspaced(course_name, existing_courses) ==
    "No course found matching '" \o course_name
        \o "'. Available courses: " \o Join(",", existing_courses)

\* the text returned for a course name that does not resolve
CourseNotFound(course_name, existing_courses) ==
    IF existing_courses # <<>>
    THEN "No course found matching '" \o course_name
           \o "'. Available courses: " \o Join(", ", existing_courses)
    ELSE "No courses available in the system."

\* CourseOutlineTool.execute.  An exception leaves execute before
\* self.last_sources is assigned: the TypeError of json.loads, and the
\* AttributeError of lesson.get when the decoded value is an object, whose
\* iteration yields its keys.
OutlineExecute(self_sources, cat, args) ==
    LET resolved_title == ResolveCourseName(cat, args.course_name)
        existing_courses == GetExistingCourseTitles(cat)
        metadatas == CatalogGet(cat, resolved_title[1])
        metadata == metadatas[1]
        lessons_json == IF metadata.lessons_json = None
                        THEN JsonList(<<>>) ELSE metadata.lessons_json[1]
        loaded == JsonLoads(lessons_json)
        lessons == IF loaded.raised = Some("JSONDecodeError")
                   THEN <<>> ELSE loaded.value
    IN  IF ~TruthyStr(resolved_title)
        THEN Outcome(CourseNotFound(args.course_name, existing_courses),
                     None, self_sources, <<>>, FALSE)
        ELSE IF metadatas = <<>>
        THEN Outcome("Error: Unable to retrieve metadata for '"
                       \o resolved_title[1] \o "'", None, self_sources, <<>>,
                     FALSE)
        ELSE IF loaded.raised = Some("TypeError")
        THEN Outcome("", Some("TypeError"), self_sources, <<>>, FALSE)
        ELSE IF loaded.type = "dict" /\ lessons # <<>>
        THEN Outcome("", Some("AttributeError"), self_sources, <<>>, FALSE)
        ELSE FormatOutline(self_sources,
                           IF metadata.title = None
                           THEN "Unknown" ELSE metadata.title[1],
                           metadata.course_link,
                           IF metadata.instructor = None
                           THEN "Unknown" ELSE metadata.instructor[1],
                           lessons)

(***************************************************************************)
(* Tool instances.  s1 is the CourseSearchTool and o1 the                  *)
(* CourseOutlineTool; p1 and p2 are two Tools that keep no last_sources    *)
(* attribute and whose definitions have the same name but differ in their  *)
(* schema, and u1 is a Tool whose definition has no name.                  *)
(***************************************************************************)
Instances == {"s1", "o1", "p1", "p2", "u1"}

\* the instances that have a last_sources attribute
HasLastSources(inst) == inst \in {"s1", "o1"}

SourceKeepers == {inst \in Instances : HasLastSources(inst)}

\* tool.get_tool_definition()
GetToolDefinition(inst) ==
    CASE inst = "s1" -> [name |-> Some("search_course_content"),
                         required |-> <<"query">>]
      [] inst = "o1" -> [name |-> Some("get_course_outline"),
                         required |-> <<"course_name">>]
      [] inst = "p1" -> [name |-> Some("plain_tool"), required |-> <<>>]
      [] inst = "p2" -> [name |-> Some("plain_tool"),
                         required |-> <<"text">>]
      [] OTHER -> [name |-> None, required |-> <<>>]

\* tool.execute(**kwargs) of one instance
ToolExecute(inst, self_sources, cat, args, results) ==
    CASE inst = "s1" -> SearchExecute(self_sources, cat, args, results)
      [] inst = "o1" -> OutlineExecute(self_sources, cat, args)
      [] OTHER -> Outcome("plain", None, <<>>, <<>>, FALSE)

(***************************************************************************)
(* ToolManager.  self.tools is a dict, which keeps insertion order: a      *)
(* sequence of name/instance entries with distinct names.                  *)
(***************************************************************************)
Names(tools) == {tools[i].name : i \in 1..Len(tools)}

\* mutant: the first registered tool is taken, whatever the name
Lookup_First(tools, tool_name) == tools[1].inst

\* self.tools[tool_name]
Lookup(tools, tool_name) ==
    tools[CHOOSE i \in 1..Len(tools) : tools[i].name = tool_name].inst

\* self.tools[tool_name] = tool: a new key goes last, a known key keeps its
\* place and takes the new value
DictSet(tools, tool_name, inst) ==
    IF tool_name \in Names(tools)
    THEN [i \in 1..Len(tools) |->
            IF tools[i].name = tool_name
            THEN [name |-> tool_name, inst |-> inst] ELSE tools[i]]
    ELSE Append(tools, [name |-> tool_name, inst |-> inst])

\* ToolManager.register_tool: the registry afterwards, and what was raised
RegisterTool(tools, inst) ==
    LET tool_name == GetToolDefinition(inst).name
    IN  IF ~TruthyStr(tool_name)
        THEN [raised |-> Some("ValueError"), tools |-> tools]
        ELSE [raised |-> None, tools |-> DictSet(tools, tool_name[1], inst)]

\* ToolManager.get_tool_definitions
GetToolDefinitions(tools) ==
    [i \in 1..Len(tools) |-> GetToolDefinition(tools[i].inst)]

\* mutant: a name that is not registered empties every citation list
ExecuteTool_MissClears(tools, sources, cat, tool_name, args, results) ==
    IF tool_name \notin Names(tools)
    THEN [out |-> Outcome("Tool '" \o tool_name \o "' not found", None,
                          <<>>, <<>>, FALSE),
          inst |-> None, sources |-> [inst \in DOMAIN sources |-> <<>>]]
    ELSE LET inst == Lookup(tools, tool_name)
             out == ToolExecute(inst,
                                IF HasLastSources(inst)
                                THEN sources[inst] ELSE <<>>,
                                cat, args, results)
         IN  [out |-> out, inst |-> Some(inst),
              sources |-> IF HasLastSources(inst)
                          THEN [sources EXCEPT ![inst] = out.last_sources]
                          ELSE sources]

\* ToolManager.execute_tool: the outcome, and every tool's citation list after
ExecuteTool(tools, sources, cat, tool_name, args, results) ==
    IF tool_name \notin Names(tools)
    THEN [out |-> Outcome("Tool '" \o tool_name \o "' not found", None,
                          <<>>, <<>>, FALSE),
          inst |-> None, sources |-> sources]
    ELSE LET inst == Lookup(tools, tool_name)
             out == ToolExecute(inst,
                                IF HasLastSources(inst)
                                THEN sources[inst] ELSE <<>>,
                                cat, args, results)
         IN  [out |-> out, inst |-> Some(inst),
              sources |-> IF HasLastSources(inst)
                          THEN [sources EXCEPT ![inst] = out.last_sources]
                          ELSE sources]

\* ToolManager.get_last_sources: the list of the first tool, in registry
\* order, whose list is not empty
GetLastSources(tools, sources) ==
    LET full == {i \in 1..Len(tools) :
                   /\ HasLastSources(tools[i].inst)
                   /\ sources[tools[i].inst] # <<>>}
    IN  IF full = {} THEN <<>>
        ELSE sources[tools[CHOOSE i \in full :
                              \A j \in full : i <= j].inst]

\* mutant: the loop stops at the first registered tool that tracks sources
ResetSources_FirstOnly(tools, sources) ==
    LET keepers == {i \in 1..Len(tools) : HasLastSources(tools[i].inst)}
    IN  [inst \in DOMAIN sources |->
           IF \E i \in keepers :
                /\ tools[i].inst = inst
                /\ \A j \in keepers : i <= j
           THEN <<>> ELSE sources[inst]]

\* mutant: only the search tool's list is reset
ResetSources_SearchOnly(tools, sources) ==
    [inst \in DOMAIN sources |->
       IF \E i \in 1..Len(tools) :
            tools[i].inst = inst /\ tools[i].name = "search_course_content"
       THEN <<>> ELSE sources[inst]]

\* ToolManager.reset_sources: every registered tool that tracks sources
ResetSources(tools, sources) ==
    [inst \in DOMAIN sources |->
       IF \E i \in 1..Len(tools) : tools[i].inst = inst
       THEN <<>> ELSE sources[inst]]

(***************************************************************************)
(* Inputs: the tool calls a caller (or the completion service) can make.   *)
(***************************************************************************)
SearchArgs ==
    [query : {"q"}, course_name : {None, Some("mcp")},
     lesson_number : {None, Some(0), Some(2)}]
      \cup { [query |-> "", course_name |-> None, lesson_number |-> None] }

OutlineArgs ==
    [course_name : {"mcp", "chroma", "broken", "ghost", "numeric", "mapping",
                    "nope"}]

NoArgs == [query |-> "q", course_name |-> None, lesson_number |-> None]

Call(name, input) == [name |-> name, input |-> input]

ToolCalls ==
    {Call("search_course_content", a) : a \in SearchArgs}
      \cup {Call("get_course_outline", a) : a \in OutlineArgs}
      \cup {Call("plain_tool", NoArgs), Call("unknown_tool", NoArgs)}

\* what store.search may return for a search with these arguments: every
\* argument combination is tried against the empty and the failing results,
\* the unfiltered query against every result
SearchOutcomes(args) ==
    IF args = NoArgs THEN AllResults
    ELSE {r \in AllResults : IsEmpty(r) \/ r.error # None}

\* stands for the retrieval result of a call that never reaches store.search
NoSearch == SearchResults(<<>>, <<>>, None)

\* whether execute_tool(tool_name, ...) runs the search tool
RunsSearch(tools, tool_name) ==
    tool_name \in Names(tools) /\ Lookup(tools, tool_name) = "s1"

(***************************************************************************)
(* State.                                                                  *)
(***************************************************************************)
VARIABLES
    tools,         \* ToolManager.tools
    last_sources,  \* last_sources of each instance that has the attribute
    catalog,       \* the store's course catalog
    reg_order,     \* the instances, in the order of their first registration
    last_op,       \* the most recent registry operation, its inputs and result
    pc,            \* the orchestrator's protocol state for the current query
    requests,      \* the completion requests sent in the current run
    responses,     \* the completion responses received in the current run
    started,       \* how many execute_tool calls the current run has begun
    dispatched,    \* the execute_tool calls made in the current run
    tool_results,  \* the tool_result entries built in the current run
    answer,        \* the text the run returned
    collected,     \* the citations the coordinator returned for the query
    fresh,         \* instances whose list was assigned in the current query
    prior_cited,   \* whether an earlier query returned citations
    queries        \* of each of two concurrent queries: its position, the
                   \* Sources its own tool call stored, and what it collected

registry_vars == <<tools, last_sources, catalog, reg_order, last_op>>

turn_vars ==
    <<pc, requests, responses, started, dispatched, tool_results, answer,
      collected, fresh, prior_cited>>

run_vars == <<turn_vars, queries>>

vars == <<registry_vars, run_vars>>

NoOp == [op |-> "none"]

\* the queries that may be in progress at the same time
Queries == {1, 2}

QueryIdle == [pc |-> "IDLE", own |-> <<>>, collected |-> <<>>]

RunInit ==
    /\ pc = "IDLE"
    /\ requests = <<>>
    /\ responses = <<>>
    /\ started = 0
    /\ dispatched = <<>>
    /\ tool_results = <<>>
    /\ answer = None
    /\ collected = <<>>
    /\ fresh = {}
    /\ prior_cited = FALSE
    /\ queries = [q \in Queries |-> QueryIdle]

(***************************************************************************)
(* The registry and its tools, driven directly (as the unit tests do).     *)
(***************************************************************************)
\* what the operation before this one left in the list of the same instance:
\* the hits of a search with hits, the Sources an outline stored; 0 otherwise
PrevHits(op, inst) ==
    IF op.op = "execute_tool" /\ op.inst = inst /\ op.inst = Some("s1")
         /\ ~TruthyStr(op.results.error)
    THEN Len(op.results.documents)
    ELSE IF op.op = "execute_tool" /\ op.inst = inst /\ op.inst = Some("o1")
              /\ op.stored
    THEN op.cited ELSE 0

\* the record of one execute_tool call
ExecuteOp(prev, call, results, ex) ==
    [op |-> "execute_tool", name |-> call.name, args |-> call.input,
     inst |-> ex.inst, results |-> results, ret |-> ex.out.ret,
     raised |-> ex.out.raised, link_calls |-> ex.out.link_calls,
     stored |-> ex.out.stored,
     cited |-> IF ex.inst # None /\ ex.inst[1] \in SourceKeepers
               THEN Len(ex.sources[ex.inst[1]]) ELSE 0,
     prev_hits |-> PrevHits(prev, ex.inst)]

\* the registry starts empty, or holding the tool without citations
ToolsInit ==
    /\ tools \in { <<>>, RegisterTool(<<>>, "p1").tools }
    /\ reg_order = [i \in 1..Len(tools) |-> tools[i].inst]
    /\ last_sources = [inst \in SourceKeepers |-> <<>>]
    /\ catalog = FullCatalog
    /\ last_op = NoOp
    /\ RunInit

\* register_tool(inst); the record keeps the registry as it was before the
\* call and whether the name of the tool was a key of it
Register(inst) ==
    /\ tools' = RegisterTool(tools, inst).tools
    /\ reg_order' = IF RegisterTool(tools, inst).raised = None
                       /\ \A i \in 1..Len(reg_order) : reg_order[i] # inst
                    THEN Append(reg_order, inst) ELSE reg_order
    /\ last_op' = [op |-> "register_tool", inst |-> inst,
                   raised |-> RegisterTool(tools, inst).raised,
                   known |-> (GetToolDefinition(inst).name # None
                                /\ GetToolDefinition(inst).name[1]
                                     \in Names(tools)),
                   before |-> tools]
    /\ UNCHANGED <<last_sources, catalog, run_vars>>

Execute(call, results) ==
    \E ex \in { ExecuteTool(tools, last_sources, catalog, call.name,
                            call.input, results) } :
        /\ last_sources' = ex.sources
        /\ last_op' = ExecuteOp(last_op, call, results, ex)
        /\ UNCHANGED <<tools, catalog, reg_order, run_vars>>

Collect ==
    /\ last_op' = [op |-> "get_last_sources",
                   after_reset |-> (last_op.op = "reset_sources"),
                   reset_cleared |-> (last_op.op = "reset_sources"
                                        /\ last_op.cleared),
                   ret |-> GetLastSources(tools, last_sources)]
    /\ UNCHANGED <<tools, last_sources, catalog, reg_order, run_vars>>

Reset ==
    /\ last_sources' = ResetSources(tools, last_sources)
    /\ last_op' = [op |-> "reset_sources",
                   cleared |-> (\E inst \in SourceKeepers :
                                  last_sources[inst] # <<>>)]
    /\ UNCHANGED <<tools, catalog, reg_order, run_vars>>

ToolsNext ==
    \/ \E inst \in {"s1", "o1", "u1"} : Register(inst)
    \/ \E call \in ToolCalls :
         \E results \in (IF RunsSearch(tools, call.name)
                         THEN SearchOutcomes(call.input) ELSE {NoSearch}) :
           Execute(call, results)
    \/ Collect
    \/ Reset

ToolSpec == ToolsInit /\ [][ToolsNext]_vars

(***************************************************************************)
(* The registry alone: any sequence of registrations, of every instance,   *)
(* with listings and dispatches in between, over a store with or without   *)
(* courses.                                                                *)
(***************************************************************************)
\* get_tool_definitions(); the record keeps what the listing just before
\* returned, when the operation just before was a listing
ListDefinitions ==
    /\ last_op' = [op |-> "get_tool_definitions",
                   ret |-> GetToolDefinitions(tools),
                   again |-> (last_op.op = "get_tool_definitions"),
                   before |-> IF last_op.op = "get_tool_definitions"
                              THEN last_op.ret ELSE <<>>]
    /\ UNCHANGED <<tools, last_sources, catalog, reg_order, run_vars>>

\* a call or two per tool name, and one with a name that no tool has
RegistryCalls ==
    { Call("search_course_content", NoArgs),
      Call("get_course_outline", [course_name |-> "mcp"]),
      Call("get_course_outline", [course_name |-> "nope"]),
      Call("plain_tool", NoArgs),
      Call("unknown_tool", NoArgs) }

\* the registry is empty; the store holds the six courses, or none
RegistryInit ==
    /\ tools = <<>>
    /\ reg_order = <<>>
    /\ last_sources = [inst \in SourceKeepers |-> <<>>]
    /\ catalog \in Catalogs
    /\ last_op = NoOp
    /\ RunInit

RegistryNext ==
    \/ \E inst \in Instances : Register(inst)
    \/ ListDefinitions
    \/ \E call \in RegistryCalls : Execute(call, NoSearch)

RegistrySpec == RegistryInit /\ [][RegistryNext]_vars

(***************************************************************************)
(* The completion service's wire shapes.                                   *)
(***************************************************************************)
TextBlock(text) == [type |-> "text", text |-> text]

ToolUseBlock(id, call) ==
    [type |-> "tool_use", id |-> id, name |-> call.name, input |-> call.input]

Response(stop_reason, content) ==
    [stop_reason |-> stop_reason, content |-> content]

Message(role, content) == [role |-> role, content |-> content]

Request(messages, tool_defs, tool_choice) ==
    [messages |-> messages, tools |-> tool_defs, tool_choice |-> tool_choice]

\* the tool calls the completion service asks for in a run
OrchCalls ==
    { Call("search_course_content", NoArgs),
      Call("get_course_outline", [course_name |-> "mcp"]),
      Call("get_course_outline", [course_name |-> "nope"]),
      Call("unknown_tool", NoArgs) }

\* what store.search answers in a run: an error, no hit, or one hit
OrchResults == {r \in AllResults : Len(r.documents) <= 1}

ToolUseId(i) == "toolu_" \o ToString(i)

\* the content of a response with k invocations: reasoning text and then
\* the blocks with identifiers counted up, or the blocks alone with
\* identifiers counted down
ToolUseContents(calls) ==
    LET k == Len(calls)
    IN  { << TextBlock("I'll search") >>
            \o [i \in 1..k |-> ToolUseBlock(ToolUseId(i), calls[i])],
          [i \in 1..k |-> ToolUseBlock(ToolUseId(k + 1 - i), calls[i])] }

\* a response that asks for k >= 1 tool invocations
ToolUseResponses ==
    UNION { UNION { { Response("tool_use", content) :
                        content \in ToolUseContents(calls) } :
                    calls \in [1..k -> OrchCalls] } : k \in 1..MaxInv }

\* a plain answer
DirectResponses == { Response("end_turn", << TextBlock("direct answer") >>) }

\* what the service may answer to the second request: a plain answer, or
\* text followed by yet another tool invocation
SecondResponses ==
    { Response("end_turn", << TextBlock("final answer") >>),
      Response("tool_use",
               << TextBlock("let me look again"),
                  ToolUseBlock("toolu_9",
                               Call("search_course_content", NoArgs)) >>) }

(***************************************************************************)
(* The orchestrator: the two-phase tool-use protocol.                      *)
(***************************************************************************)
\* mutant: every response is taken for a tool-use response
IsToolUse_Always(resp) == resp.stop_reason \in {"tool_use", "end_turn"}

\* whether the response's stop condition signals tool use
IsToolUse(resp) == resp.stop_reason = "tool_use"

\* the tool_use blocks of a response, in the order emitted
ToolUses(resp) == SelectSeq(resp.content, LAMBDA b : b.type = "tool_use")

\* the text of a response: content[0].text
ResponseText(resp) == resp.content[1].text

\* the first request: one user message, every tool definition, choice "auto"
FirstRequest(query, tool_defs) ==
    Request(<< Message("user", query) >>, Some(tool_defs), Some("auto"))

\* mutant: the invocations are dispatched from the last to the first
NextInvocation_Reversed(resp, done) ==
    ToolUses(resp)[Len(ToolUses(resp)) - Len(done)]

\* the invocation to dispatch next
NextInvocation(resp, done) == ToolUses(resp)[Len(done) + 1]

\* the texts by which a dispatch reports that it found nothing to run or
\* nothing to read: the registry's sentinel, the store's errors, the outline
\* tool's guidance
ErrorTexts ==
    { "Tool 'unknown_tool' not found",
      "No course found matching 'nope'",
      "Search error: timeout",
      CourseNotFound("nope", GetExistingCourseTitles(FullCatalog)) }

\* mutant: an error text is withheld from the result turn
ToolResult_ErrorsWithheld(inv, text) ==
    [type |-> "tool_result", tool_use_id |-> inv.id,
     content |-> IF text \in ErrorTexts THEN "" ELSE text]

\* the result entry of one dispatched invocation
ToolResult(inv, text) ==
    [type |-> "tool_result", tool_use_id |-> inv.id, content |-> text]

\* mutant: the second request offers the tools again
SecondRequest_WithTools(first, resp, results) ==
    Request(first.messages
              \o << Message("assistant", resp.content),
                    Message("user", results) >>,
            first.tools, first.tool_choice)

\* the second request: the first one's messages, the assistant turn as
\* received and one user turn with the results; no tool definitions
SecondRequest(first, resp, results) ==
    Request(first.messages
              \o << Message("assistant", resp.content),
                    Message("user", results) >>,
            None, None)

RECURSIVE RegisterAll(_, _)
\* the registry after register_tool for each instance of a sequence
RegisterAll(reg, insts) ==
    IF insts = <<>> THEN reg
    ELSE RegisterAll(RegisterTool(reg, insts[1]).tools, Tail(insts))

\* at startup both tools are registered, in one order or the other
Init ==
    /\ tools \in { RegisterAll(<<>>, <<"s1", "o1">>),
                   RegisterAll(<<>>, <<"o1", "s1">>) }
    /\ reg_order = [i \in 1..Len(tools) |-> tools[i].inst]
    /\ last_sources = [inst \in SourceKeepers |-> <<>>]
    /\ catalog = FullCatalog
    /\ last_op = NoOp
    /\ RunInit

\* the coordinator takes a query: a new run starts
BeginQuery ==
    /\ pc = "IDLE"
    /\ pc' = "INIT"
    /\ requests' = <<>>
    /\ responses' = <<>>
    /\ started' = 0
    /\ dispatched' = <<>>
    /\ tool_results' = <<>>
    /\ answer' = None
    /\ collected' = <<>>
    /\ fresh' = {}
    /\ UNCHANGED <<registry_vars, prior_cited, queries>>

SendFirst ==
    /\ pc = "INIT"
    /\ requests' = << FirstRequest("q", GetToolDefinitions(tools)) >>
    /\ pc' = "FIRST_CALL"
    /\ UNCHANGED <<registry_vars, responses, dispatched, tool_results, answer,
                   collected, fresh, prior_cited,
                   started, queries>>

RecvDirect(resp) ==
    /\ pc = "FIRST_CALL"
    /\ ~IsToolUse(resp)
    /\ responses' = << resp >>
    /\ answer' = Some(ResponseText(resp))
    /\ pc' = "DIRECT_ANSWER"
    /\ UNCHANGED <<registry_vars, requests, dispatched, tool_results,
                   collected, fresh, prior_cited,
                   started, queries>>

RecvToolUse(resp) ==
    /\ pc = "FIRST_CALL"
    /\ IsToolUse(resp)
    /\ responses' = << resp >>
    /\ pc' = "TOOL_EXECUTION"
    /\ UNCHANGED <<registry_vars, requests, dispatched, tool_results, answer,
                   collected, fresh, prior_cited,
                   started, queries>>

\* what one registry dispatch does to the run and to the tools: the next
\* invocation is executed and its result entry is built; results is what
\* store.search answers, if asked
DispatchEffect(results) ==
    \E inv \in { NextInvocation(responses[1], dispatched) } :
      /\ results \in (IF RunsSearch(tools, inv.name)
                      THEN OrchResults ELSE {NoSearch})
      /\ \E ex \in { ExecuteTool(tools, last_sources, catalog, inv.name,
                                 inv.input, results) } :
           /\ last_sources' = ex.sources
           /\ last_op' = ExecuteOp(last_op, Call(inv.name, inv.input),
                                   results, ex)
           /\ dispatched' = Append(dispatched, Call(inv.name, inv.input))
           /\ tool_results' =
                Append(tool_results, ToolResult(inv, ex.out.ret))
           /\ fresh' = IF ex.out.stored
                       THEN fresh \cup {ex.inst[1]} ELSE fresh

\* one registry dispatch, from the call to its return
Dispatch(results) ==
    /\ pc = "TOOL_EXECUTION"
    /\ Len(dispatched) < Len(ToolUses(responses[1]))
    /\ started' = started + 1
    /\ DispatchEffect(results)
    /\ UNCHANGED <<tools, catalog, reg_order, pc, requests, responses, answer,
                   collected, prior_cited, queries>>

SendSecond ==
    /\ pc = "TOOL_EXECUTION"
    /\ Len(dispatched) = Len(ToolUses(responses[1]))
    /\ requests' = Append(requests,
                          SecondRequest(requests[1], responses[1],
                                        tool_results))
    /\ pc' = "SECOND_CALL"
    /\ UNCHANGED <<registry_vars, responses, dispatched, tool_results, answer,
                   collected, fresh, prior_cited,
                   started, queries>>

RecvSecond(resp) ==
    /\ pc = "SECOND_CALL"
    /\ responses' = Append(responses, resp)
    /\ answer' = Some(ResponseText(resp))
    /\ pc' = "DONE"
    /\ UNCHANGED <<registry_vars, requests, dispatched, tool_results,
                   collected, fresh, prior_cited,
                   started, queries>>

\* the coordinator pulls the citations of the finished run ...
QueryCollect ==
    /\ pc \in {"DIRECT_ANSWER", "DONE"}
    /\ collected' = GetLastSources(tools, last_sources)
    /\ last_op' = [op |-> "get_last_sources",
                   after_reset |-> (last_op.op = "reset_sources"),
                   reset_cleared |-> (last_op.op = "reset_sources"
                                        /\ last_op.cleared),
                   ret |-> GetLastSources(tools, last_sources)]
    /\ pc' = "COLLECTED"
    /\ UNCHANGED <<tools, last_sources, catalog, reg_order, requests,
                   responses, dispatched, tool_results, answer, fresh,
                   prior_cited,
                   started, queries>>

\* ... and clears them; the query is answered
QueryClear ==
    /\ pc = "COLLECTED"
    /\ last_sources' = ResetSources(tools, last_sources)
    /\ last_op' = [op |-> "reset_sources",
                   cleared |-> (\E inst \in SourceKeepers :
                                  last_sources[inst] # <<>>)]
    /\ prior_cited' = (prior_cited \/ collected # <<>>)
    /\ pc' = "IDLE"
    /\ UNCHANGED <<tools, catalog, reg_order, requests, responses,
                   dispatched, tool_results, answer, collected, fresh,
                   started, queries>>

Next ==
    \/ BeginQuery
    \/ SendFirst
    \/ \E resp \in DirectResponses \cup ToolUseResponses : RecvDirect(resp)
    \/ \E resp \in DirectResponses \cup ToolUseResponses : RecvToolUse(resp)
    \/ \E results \in OrchResults \cup {NoSearch} : Dispatch(results)
    \/ SendSecond
    \/ \E resp \in SecondResponses : RecvSecond(resp)
    \/ QueryCollect
    \/ QueryClear

Spec == Init /\ [][Next]_vars

(***************************************************************************)
(* Runs that may fail.  A completion-service call or a tool dispatch       *)
(* either returns or fails; a failure ends the run and is reported to the  *)
(* caller of the query, where the model leaves it.  Every call eventually  *)
(* returns or fails: the run's steps are weakly fair.                      *)
(***************************************************************************)
\* mutant: a failed call sends the run back to the first call
OnFailure_Retry(state) ==
    IF state = "FIRST_CALL" THEN "FAILED" ELSE "FIRST_CALL"

\* the state a run is in after a call made in this state has failed
OnFailure(state) == "FAILED"

\* the first completion call fails
FailFirst ==
    /\ pc = "FIRST_CALL"
    /\ pc' = OnFailure(pc)
    /\ UNCHANGED <<registry_vars, requests, responses, dispatched,
                   tool_results, answer, collected, fresh, prior_cited,
                   started, queries>>

\* the dispatch of the next invocation raises: execute_tool lets the
\* exception of the tool through, and no citation list has been assigned
DispatchRaises ==
    /\ pc = "TOOL_EXECUTION"
    /\ Len(dispatched) < Len(ToolUses(responses[1]))
    /\ LET inv == NextInvocation(responses[1], dispatched)
       IN  dispatched' = Append(dispatched, Call(inv.name, inv.input))
    /\ started' = started + 1
    /\ pc' = OnFailure(pc)
    /\ UNCHANGED <<registry_vars, requests, responses, tool_results, answer,
                   collected, fresh, prior_cited, queries>>

\* the second completion call fails
FailSecond ==
    /\ pc = "SECOND_CALL"
    /\ pc' = OnFailure(pc)
    /\ UNCHANGED <<registry_vars, requests, responses, dispatched,
                   tool_results, answer, collected, fresh, prior_cited,
                   started, queries>>

\* the steps of a run that is under way
RunStep ==
    \/ SendFirst
    \/ FailFirst
    \/ \E resp \in DirectResponses \cup ToolUseResponses : RecvDirect(resp)
    \/ \E resp \in DirectResponses \cup ToolUseResponses : RecvToolUse(resp)
    \/ DispatchRaises
    \/ \E results \in OrchResults \cup {NoSearch} : Dispatch(results)
    \/ SendSecond
    \/ FailSecond
    \/ \E resp \in SecondResponses : RecvSecond(resp)

FairNext ==
    \/ Next
    \/ FailFirst
    \/ DispatchRaises
    \/ FailSecond

FairSpec == Init /\ [][FairNext]_vars /\ WF_vars(RunStep)

(***************************************************************************)
(* Runs seen at the grain of a dispatch's call and return.  The            *)
(* orchestrator walks the first response's tool invocations in one loop on *)
(* one thread: it calls execute_tool, waits for it to return, appends the  *)
(* result entry, and only then takes the next invocation.                  *)
(***************************************************************************)
MayStart_Eager(n_started, n_returned, n_invocations) ==
    n_started < n_invocations

\* the loop takes the next invocation only when the call before it is back
MayStart(n_started, n_returned, n_invocations) ==
    /\ n_started = n_returned
    /\ n_started < n_invocations

\* execute_tool is called for the next invocation
DispatchStart ==
    /\ pc = "TOOL_EXECUTION"
    /\ MayStart(started, Len(dispatched), Len(ToolUses(responses[1])))
    /\ started' = started + 1
    /\ UNCHANGED <<registry_vars, pc, requests, responses, dispatched,
                   tool_results, answer, collected, fresh, prior_cited, queries>>

\* the oldest call in flight returns and its result entry is appended
DispatchReturn(results) ==
    /\ pc = "TOOL_EXECUTION"
    /\ started > Len(dispatched)
    /\ DispatchEffect(results)
    /\ UNCHANGED <<tools, catalog, reg_order, pc, requests, responses,
                   started, answer, collected, prior_cited, queries>>

SerialNext ==
    \/ BeginQuery
    \/ SendFirst
    \/ \E resp \in DirectResponses \cup ToolUseResponses : RecvDirect(resp)
    \/ \E resp \in DirectResponses \cup ToolUseResponses : RecvToolUse(resp)
    \/ DispatchStart
    \/ \E results \in OrchResults \cup {NoSearch} : DispatchReturn(results)
    \/ SendSecond
    \/ \E resp \in SecondResponses : RecvSecond(resp)
    \/ QueryCollect
    \/ QueryClear

SerialSpec == Init /\ [][SerialNext]_vars

(***************************************************************************)
(* Two queries in progress at the same time.  The coordinator and the      *)
(* registry are one object each and every query goes through the same two  *)
(* tool instances: a query has its tool call dispatched through            *)
(* execute_tool, then reads get_last_sources, then calls reset_sources,    *)
(* and the calls of two queries interleave.  Each call is one step here;   *)
(* a finer grain adds interleavings and removes none.                      *)
(***************************************************************************)
\* the tool call of a query: one that stores at least one Source
ConcCalls ==
    { Call("search_course_content", NoArgs),
      Call("get_course_outline", [course_name |-> "mcp"]) }

\* what store.search answers a query's search: one hit
ConcResults ==
    { SearchResults(<< Doc(1) >>, << m >>, None) : m \in Metas }

\* the coordinator takes query q
ConcBegin(q) ==
    /\ queries[q].pc = "IDLE"
    /\ queries' = [queries EXCEPT ![q] =
                     [pc |-> "TOOL_EXECUTION", own |-> <<>>,
                      collected |-> <<>>]]
    /\ UNCHANGED <<registry_vars, turn_vars>>

\* the run of query q dispatches its tool call
ConcDispatch(q, call, results) ==
    /\ queries[q].pc = "TOOL_EXECUTION"
    /\ \E ex \in { ExecuteTool(tools, last_sources, catalog, call.name,
                               call.input, results) } :
         /\ last_sources' = ex.sources
         /\ queries' = [queries EXCEPT
                          ![q].pc = "DONE",
                          ![q].own = IF ex.out.stored
                                     THEN ex.out.last_sources ELSE <<>>]
    /\ UNCHANGED <<tools, catalog, reg_order, last_op, turn_vars>>

\* the coordinator reads the citations for query q
ConcCollect(q) ==
    /\ queries[q].pc = "DONE"
    /\ queries' = [queries EXCEPT
                     ![q].pc = "COLLECTED",
                     ![q].collected = GetLastSources(tools, last_sources)]
    /\ UNCHANGED <<registry_vars, turn_vars>>

\* ... and clears them; query q is answered
ConcClear(q) ==
    /\ queries[q].pc = "COLLECTED"
    /\ last_sources' = ResetSources(tools, last_sources)
    /\ queries' = [queries EXCEPT ![q].pc = "IDLE"]
    /\ UNCHANGED <<tools, catalog, reg_order, last_op, turn_vars>>

ConcNext ==
    \E q \in Queries :
      \/ ConcBegin(q)
      \/ \E call \in ConcCalls :
           \E results \in (IF RunsSearch(tools, call.name)
                           THEN ConcResults ELSE {NoSearch}) :
             ConcDispatch(q, call, results)
      \/ ConcCollect(q)
      \/ ConcClear(q)

ConcSpec == Init /\ [][ConcNext]_vars

(***************************************************************************)
(* Properties of the orchestrator and the coordinator (under Spec).        *)
(***************************************************************************)
\* the tool invocations of the first response, in the order it lists them
FirstInvocations ==
    SelectSeq(responses[1].content, LAMBDA b : b.type = "tool_use")

\* the first response of the run asked for tools / was a plain answer
FirstAskedTools == responses # <<>> /\ responses[1].stop_reason = "tool_use"

FirstWasPlain == responses # <<>> /\ responses[1].stop_reason # "tool_use"

\* the tool-use round of the run is over: the follow-up request went out
RoundOver == pc \in {"SECOND_CALL", "DONE", "COLLECTED", "IDLE"}

\* C1: a first response with k >= 1 invocations leads to exactly k registry
\* dispatches, in the response's order and with each invocation's own name
\* and arguments, and then to one follow-up request whose messages are the
\* first request's plus the assistant turn as received and one user turn;
\* the i-th result of that turn carries the i-th invocation's identifier.
C1_ToolUseRound ==
    FirstAskedTools =>
        LET invs == FirstInvocations
            k == Len(invs)
        IN  /\ Len(dispatched) <= k
            /\ \A i \in 1..Len(dispatched) :
                 dispatched[i] = Call(invs[i].name, invs[i].input)
            /\ pc = "TOOL_EXECUTION" => Len(requests) = 1
            /\ RoundOver =>
                 /\ Len(dispatched) = k
                 /\ Len(requests) = 2
                 /\ Len(requests[2].messages) = Len(requests[1].messages) + 2
                 /\ SubSeq(requests[2].messages, 1, Len(requests[1].messages))
                      = requests[1].messages
                 /\ LET n == Len(requests[1].messages)
                        turn == requests[2].messages[n + 1]
                        res == requests[2].messages[n + 2]
                    IN  /\ turn = [role |-> "assistant",
                                   content |-> responses[1].content]
                        /\ res.role = "user"
                        /\ Len(res.content) = k
                        /\ \A i \in 1..k :
                             res.content[i].tool_use_id = invs[i].id

\* C1 witness: a finished run whose first response asked for two different
\* tools, the first listed with the identifier toolu_2
C1_Witness ==
    /\ pc = "DONE"
    /\ FirstAskedTools
    /\ Len(FirstInvocations) = 2
    /\ FirstInvocations[1].id = "toolu_2"
    /\ FirstInvocations[2].id = "toolu_1"
    /\ FirstInvocations[1].name # FirstInvocations[2].name
    /\ Len(dispatched) = 2

\* C2: after a plain first response the run has made one completion request
\* and no registry dispatch, and returns that response's text.
C2_DirectAnswer ==
    FirstWasPlain =>
        /\ Len(requests) = 1
        /\ Len(responses) = 1
        /\ dispatched = <<>>
        /\ answer = Some(responses[1].content[1].text)

\* C2 witness: a query answered directly, after its run has ended
C2_Witness ==
    /\ pc = "IDLE"
    /\ FirstWasPlain
    /\ answer = Some("direct answer")

\* C3: at most two completion requests per run; the second carries no tool
\* definitions; nothing is dispatched after it, whatever the second response
\* holds; the run returns the second response's text.
C3_SingleRound ==
    /\ Len(requests) <= 2
    /\ Len(responses) <= 2
    /\ Len(requests) = 2 =>
         /\ requests[2].tools = None
         /\ Len(dispatched) = Len(FirstInvocations)
    /\ Len(responses) = 2 =>
         /\ Len(requests) = 2
         /\ answer = Some(responses[2].content[1].text)

\* C3 witness: the second response asks for a tool again and the run is over
C3_Witness ==
    /\ pc = "IDLE"
    /\ Len(responses) = 2
    /\ responses[2].stop_reason = "tool_use"
    /\ answer = Some("let me look again")
    /\ Len(dispatched) = 1

\* both tools assigned a non-empty citation list in the current turn
BothToolsCited ==
    /\ fresh = {"s1", "o1"}
    /\ last_sources["s1"] # <<>>
    /\ last_sources["o1"] # <<>>

\* C4 (as claimed): after a turn in which both tools produced citations,
\* get_last_sources returns every Source of both.
C4_CollectIsUnion ==
    (pc = "COLLECTED" /\ BothToolsCited) =>
        \A inst \in {"s1", "o1"} :
          \A i \in 1..Len(last_sources[inst]) :
            \E j \in 1..Len(collected) : collected[j] = last_sources[inst][i]

\* C5: the citations returned for a query come from that query's own tool
\* executions: no list that a tool holds, and none that is collected, stems
\* from an earlier query, and a query without tool execution returns none.
C5_NoCitationFromEarlierQuery ==
    /\ \A inst \in SourceKeepers : last_sources[inst] # <<>> => inst \in fresh
    /\ pc = "COLLECTED" =>
         /\ dispatched = <<>> => collected = <<>>
         /\ collected # <<>> =>
              \E inst \in fresh : collected = last_sources[inst]

\* C5 witness: a query answered directly returns no citations although an
\* earlier query returned some
C5_Witness ==
    /\ pc = "COLLECTED"
    /\ prior_cited
    /\ dispatched = <<>>
    /\ collected = <<>>

\* C19: an error text that a dispatch returns is a result like any other:
\* it is the content of the result entry that carries the identifier of its
\* invocation, the invocations after it are dispatched all the same, the
\* second request goes out with the results in invocation order, and the
\* run returns the second response's text.
C19_ErrorTextIsFolded ==
    FirstAskedTools =>
        LET invs == FirstInvocations
            n == Len(dispatched)
            had_error == \E i \in 1..Len(tool_results) :
                           tool_results[i].content \in ErrorTexts
        IN  /\ Len(tool_results) = n
            /\ \A i \in 1..n :
                 /\ tool_results[i].tool_use_id = invs[i].id
                 /\ dispatched[i].name = "unknown_tool" =>
                      tool_results[i].content = "Tool 'unknown_tool' not found"
                 /\ dispatched[i] = Call("get_course_outline",
                                         [course_name |-> "nope"]) =>
                      tool_results[i].content =
                        "No course found matching 'nope'. Available courses: "
                          \o "MCP, Chroma, Broken, Ghost, Numeric, Mapping"
            /\ (n >= 1 /\ pc \in {"TOOL_EXECUTION", "SECOND_CALL", "DONE"}) =>
                 tool_results[n].content = last_op.ret
            /\ (had_error /\ RoundOver) =>
                 /\ n = Len(invs)
                 /\ Len(requests) = 2
                 /\ requests[2].messages[Len(requests[2].messages)]
                      = [role |-> "user", content |-> tool_results]
            /\ (had_error /\ pc \in {"DONE", "COLLECTED", "IDLE"}) =>
                 /\ Len(responses) = 2
                 /\ answer = Some(responses[2].content[1].text)

\* C19 witness: the unknown tool first, then a search that the store answers
\* with an error; the run has returned the second response's text
C19_Witness ==
    /\ pc = "DONE"
    /\ Len(dispatched) = 2
    /\ dispatched[1].name = "unknown_tool"
    /\ tool_results[1].content = "Tool 'unknown_tool' not found"
    /\ dispatched[2].name = "search_course_content"
    /\ tool_results[2].content = "Search error: timeout"
    /\ answer = Some("final answer")

(***************************************************************************)
(* The protocol states of a run (under FairSpec).                          *)
(***************************************************************************)
\* the states of a run; the others belong to the coordinator between runs
RunStates ==
    {"INIT", "FIRST_CALL", "DIRECT_ANSWER", "TOOL_EXECUTION", "SECOND_CALL",
     "DONE", "FAILED"}

TerminalStates == {"DIRECT_ANSWER", "DONE", "FAILED"}

\* the moves of a run: the protocol's path, and the failure of a call
RunMoves ==
    { <<"INIT", "FIRST_CALL">>, <<"FIRST_CALL", "DIRECT_ANSWER">>,
      <<"FIRST_CALL", "TOOL_EXECUTION">>, <<"TOOL_EXECUTION", "SECOND_CALL">>,
      <<"SECOND_CALL", "DONE">>, <<"FIRST_CALL", "FAILED">>,
      <<"TOOL_EXECUTION", "FAILED">>, <<"SECOND_CALL", "FAILED">> }

\* one step of the system, as far as the run's state goes
RunMovesOnly ==
    /\ (pc' # pc /\ pc' \in RunStates \ {"INIT"}) => <<pc, pc'>> \in RunMoves
    /\ (pc' # pc /\ pc' = "INIT") => pc = "IDLE"
    /\ pc \in TerminalStates =>
         /\ pc' \notin RunStates \ {pc}
         /\ UNCHANGED <<requests, responses, dispatched, tool_results,
                        answer>>

\* C20: a run changes state only along INIT -> FIRST_CALL -> DIRECT_ANSWER
\* or TOOL_EXECUTION, TOOL_EXECUTION -> SECOND_CALL -> DONE, or into
\* FAILED when a call fails; these moves form no cycle, so no state is
\* entered twice; a run in a terminal state makes no further move, request
\* or dispatch; and, every call eventually returning or failing, a run in
\* FIRST_CALL leads to DIRECT_ANSWER, DONE or FAILED.
C20_RunPathAndTermination ==
    /\ [][RunMovesOnly]_vars
    /\ (pc = "FIRST_CALL") ~> (pc \in TerminalStates)

\* C20 witness: a run that went the whole path, with two dispatches
C20_Witness ==
    /\ pc = "DONE"
    /\ Len(requests) = 2
    /\ Len(dispatched) = 2
    /\ answer = Some("final answer")

(***************************************************************************)
(* Properties of the registry and its tools (under ToolSpec).              *)
(***************************************************************************)
\* the last operation was a search that store.search answered with results
SearchRan == last_op.op = "execute_tool" /\ last_op.inst = Some("s1")

\* ... with at least one hit and no error
SearchHit ==
    /\ SearchRan
    /\ ~TruthyStr(last_op.results.error)
    /\ ~IsEmpty(last_op.results)

\* ... with no hit and no error
SearchEmpty ==
    /\ SearchRan
    /\ ~TruthyStr(last_op.results.error)
    /\ IsEmpty(last_op.results)

\* C6: reset_sources immediately followed by get_last_sources yields the
\* empty list, whatever is registered and whatever was executed before.
C6_ResetThenCollectIsEmpty ==
    (last_op.op = "get_last_sources" /\ last_op.after_reset)
        => last_op.ret = <<>>

\* C6 witness: a collect right after a reset that had a non-empty list to clear
C6_Witness ==
    /\ last_op.op = "get_last_sources"
    /\ last_op.after_reset
    /\ last_op.reset_cleared

\* C7: after two consecutive searches with hits on the same instance, the
\* tool's list is exactly the Sources of the second search, in hit order.
C7_SearchReplacesSources ==
    (SearchHit /\ last_op.prev_hits >= 1) =>
        LET md == last_op.results.metadata
        IN  last_sources["s1"] =
              [i \in 1..Len(md) |->
                 Source(SourceText(md[i]), LessonLink(catalog, md[i]))]

\* C7 witness: a search with one hit right after a search with two hits
C7_Witness ==
    /\ SearchHit
    /\ last_op.prev_hits = 2
    /\ Len(last_op.results.documents) = 1
    /\ Len(last_sources["s1"]) = 1

\* C8 (as claimed): after a search with no hits and no error the search
\* tool's list is empty, whatever preceded it.
C8_EmptySearchLeavesNoSources ==
    SearchEmpty => last_sources["s1"] = <<>>

\* C9: after a search with k hits the list has k Sources, the i-th with text
\* "<title> - Lesson <n>" when the i-th hit has a lesson number (0 included)
\* and "<title>" otherwise.
C9_OneSourcePerHit ==
    SearchHit =>
        LET md == last_op.results.metadata
            src == last_sources["s1"]
        IN  /\ Len(src) = Len(last_op.results.documents)
            /\ \A i \in 1..Len(src) :
                 src[i].text =
                   IF md[i].lesson_number = None
                   THEN md[i].course_title[1]
                   ELSE md[i].course_title[1] \o " - Lesson "
                          \o ToString(md[i].lesson_number[1])

\* C9 witness: two hits, the first of lesson 0 and the second without lesson
C9_Witness ==
    /\ SearchHit
    /\ last_op.results.metadata =
         << Meta(Some("MCP"), Some(0)), Meta(Some("Chroma"), None) >>
    /\ last_sources["s1"][1].text = "MCP - Lesson 0"
    /\ last_sources["s1"][2].text = "Chroma"

\* C10: the link of the i-th Source is what the store's lookup gives for the
\* i-th hit's title and lesson number, and None when the hit has no lesson
\* number; a missing link raises nothing and leaves one Source and one
\* rendered hit per hit, in hit order.
C10_LinkPerHit ==
    SearchHit =>
        LET md == last_op.results.metadata
            docs == last_op.results.documents
            src == last_sources["s1"]
        IN  /\ last_op.raised = None
            /\ Len(src) = Len(docs)
            /\ \A i \in 1..Len(src) :
                 /\ src[i].link =
                      IF md[i].lesson_number = None THEN None
                      ELSE GetLessonLink(catalog, md[i].course_title[1],
                                         md[i].lesson_number[1])
                 /\ src[i].text = SourceText(md[i])
            /\ last_op.ret =
                 Join("\n\n", [i \in 1..Len(docs) |->
                                 Header(md[i]) \o "\n" \o docs[i]])

\* C10 witness: a hit whose lesson has no link, then a hit whose lesson has
C10_Witness ==
    /\ SearchHit
    /\ Len(last_sources["s1"]) = 2
    /\ last_op.results.metadata[1].lesson_number # None
    /\ last_sources["s1"][1].link = None
    /\ last_sources["s1"][2].link = Some("https://mcp/0")

\* C11 (as claimed): a search with no hits and no error returns "No relevant
\* content found", then " in course '<course_name>'" exactly when a
\* course_name was supplied, then " in lesson <lesson_number>" exactly when a
\* lesson_number was supplied (0 included), then ".".
C11_EmptyMessageNamesFilters ==
    SearchEmpty =>
        last_op.ret =
          "No relevant content found"
            \o (IF last_op.args.course_name # None
                THEN " in course '" \o last_op.args.course_name[1] \o "'"
                ELSE "")
            \o (IF last_op.args.lesson_number # None
                THEN " in lesson " \o ToString(last_op.args.lesson_number[1])
                ELSE "")
            \o "."

\* C12: when the result of store.search carries an error, execute returns
\* exactly that message and raises nothing, whatever the query, the filters
\* and the documents of the result.
C12_ErrorReturnedVerbatim ==
    (SearchRan /\ last_op.results.error # None) =>
        /\ last_op.ret = last_op.results.error[1]
        /\ last_op.raised = None

\* C12 witness: the result holds a document beside the error
C12_Witness ==
    /\ SearchRan
    /\ last_op.results.documents # <<>>
    /\ last_op.results.error = Some("Search error: timeout")
    /\ last_op.ret = "Search error: timeout"

\* the last operation was an execute of the outline tool
OutlineRan == last_op.op = "execute_tool" /\ last_op.inst = Some("o1")

\* ... for a course name that the store does not resolve
OutlineUnresolved ==
    /\ OutlineRan
    /\ \A i \in 1..Len(catalog) :
         last_op.args.course_name \notin catalog[i].resolved_by

\* ... for a course that resolves to this catalog entry, which has metadata
OutlineOf(i) ==
    /\ OutlineRan
    /\ last_op.args.course_name \in catalog[i].resolved_by
    /\ catalog[i].metadatas # <<>>

\* C13 (under RegistrySpec, whose store has six courses or none): the
\* outline of a course name that does not resolve raises nothing and
\* returns, for the catalog of six courses, the message that lists the six
\* titles joined by ", ", and for the empty catalog exactly "No courses
\* available in the system.".
C13_UnresolvedCourseText ==
    OutlineUnresolved =>
        /\ last_op.raised = None
        /\ catalog = FullCatalog =>
             last_op.ret =
               "No course found matching '" \o last_op.args.course_name
                 \o "'. Available courses: "
                 \o "MCP, Chroma, Broken, Ghost, Numeric, Mapping"
        /\ catalog = EmptyCatalog =>
             last_op.ret = "No courses available in the system."

\* C13 witness: "nope" asked of the catalog of six courses
C13_Witness ==
    /\ OutlineUnresolved
    /\ catalog = FullCatalog
    /\ last_op.args.course_name = "nope"

\* C14 (as claimed): the outline of a resolved course whose stored lesson
\* blob is not a JSON text of a lesson list (no JSON, no text, or JSON of
\* something else) raises nothing, returns the course header followed by
\* "- No lessons available", and leaves the outline tool without citations.
C14_MalformedBlobDegrades ==
    \A i \in 1..Len(catalog) :
      (/\ OutlineOf(i)
       /\ catalog[i].metadatas[1].lessons_json # None
       /\ catalog[i].metadatas[1].lessons_json[1].kind # "json_list") =>
          LET m == catalog[i].metadatas[1]
          IN  /\ last_op.raised = None
              /\ last_op.ret =
                   Join("\n",
                        << "Course: " \o m.title[1] >>
                          \o (IF m.course_link # None
                              THEN << "Link: " \o m.course_link[1] >>
                              ELSE <<>>)
                          \o << "Instructor: "
                                  \o (IF m.instructor = None THEN "Unknown"
                                      ELSE m.instructor[1]),
                                "", "Lessons:", "- No lessons available" >>)
              /\ last_sources["o1"] = <<>>

\* ... for a course that resolves to this catalog entry, whose metadata
\* holds the JSON text of a list of lessons
OutlineListed(i) ==
    /\ OutlineOf(i)
    /\ catalog[i].metadatas[1].lessons_json # None
    /\ catalog[i].metadatas[1].lessons_json[1].kind = "json_list"

\* the lessons of that catalog entry, in catalog order
LessonsOf(i) == catalog[i].metadatas[1].lessons_json[1].lessons

\* C23: the outline of a resolved course with metadata is the header block
\* ("Course: <title>", "Link: <link>" only when the course has a link,
\* "Instructor: <instructor>", an empty line, "Lessons:") followed by
\* exactly one line "- Lesson <n>: <title>" per lesson of the catalog entry,
\* in catalog order and not sorted by number, or by the single line
\* "- No lessons available" when the entry has no lessons; the lines are
\* separated by newlines and nothing is raised.
C23_OutlineTextListing ==
    \A i \in 1..Len(catalog) :
      OutlineListed(i) =>
        LET m == catalog[i].metadatas[1]
            ls == LessonsOf(i)
        IN  /\ last_op.raised = None
            /\ last_op.ret =
                 Join("\n",
                      << "Course: " \o m.title[1] >>
                        \o (IF m.course_link # None
                            THEN << "Link: " \o m.course_link[1] >>
                            ELSE <<>>)
                        \o << "Instructor: " \o m.instructor[1], "",
                              "Lessons:" >>
                        \o (IF Len(ls) = 0
                            THEN << "- No lessons available" >>
                            ELSE [j \in 1..Len(ls) |->
                                    "- Lesson "
                                      \o ToString(ls[j].lesson_number[1])
                                      \o ": " \o ls[j].lesson_title[1]]))

\* C23 witness: the outline of the course whose lessons are stored in the
\* order 0, 2, 1
C23_Witness ==
    /\ OutlineRan
    /\ last_op.args.course_name = "mcp"
    /\ last_op.ret = "Course: MCP\nLink: https://mcp\nInstructor: Ann\n\n"
                       \o "Lessons:\n- Lesson 0: Intro\n- Lesson 2: Servers\n"
                       \o "- Lesson 1: Clients"

\* the lessons of a sequence that carry a link, in the same order
Linked(lessons) == SelectSeq(lessons, LAMBDA l : l.lesson_link # None)

\* C24: after a successful outline the outline tool's list holds exactly one
\* Source per lesson of the catalog entry that carries a link, in catalog
\* order, with the text "<course_title> - Lesson <n>" and that lesson's
\* link; a lesson without a link gives no Source, so there are never more
\* Sources than lessons listed; and the list is this whatever the tool held
\* before the call.
C24_OutlineCitations ==
    \A i \in 1..Len(catalog) :
      OutlineListed(i) =>
        LET m == catalog[i].metadatas[1]
            ls == LessonsOf(i)
            src == last_sources["o1"]
        IN  /\ Len(src) = Len(Linked(ls))
            /\ Len(src) <= Len(ls)
            /\ \A j \in 1..Len(src) :
                 /\ src[j].text =
                      m.title[1] \o " - Lesson "
                        \o ToString(Linked(ls)[j].lesson_number[1])
                 /\ src[j].link = Linked(ls)[j].lesson_link

\* C24 witness: the outline of the course with three lessons, two of them
\* linked, run while the tool held the two Sources of an earlier outline
C24_Witness ==
    /\ OutlineRan
    /\ last_op.args.course_name = "mcp"
    /\ last_op.prev_hits = 2
    /\ last_sources["o1"] =
         << Source("MCP - Lesson 0", Some("https://mcp/0")),
            Source("MCP - Lesson 1", Some("https://mcp/1")) >>

(***************************************************************************)
(* Properties of registration, listing and dispatch (under RegistrySpec,   *)
(* C16 under ToolSpec).                                                    *)
(***************************************************************************)
\* C15 (as claimed): register_tool of a tool whose definition has no name,
\* or whose name is already a key of the registry, raises, and the registry
\* is afterwards what it was before the call.
C15_RegisterRejectsDuplicates ==
    (/\ last_op.op = "register_tool"
     /\ \/ GetToolDefinition(last_op.inst).name = None
        \/ last_op.known) =>
        /\ last_op.raised # None
        /\ tools = last_op.before

\* C16: execute_tool with a name that is no key of the registry returns
\* "Tool '<name>' not found", raises nothing, runs no tool, makes no lookup
\* and leaves the citation list of every instance as it was.
C16_UnknownToolSentinel ==
    [][(last_op'.op = "execute_tool" /\ last_op'.name \notin Names(tools)) =>
         /\ last_op'.ret = "Tool '" \o last_op'.name \o "' not found"
         /\ last_op'.raised = None
         /\ last_op'.inst = None
         /\ last_op'.link_calls = <<>>
         /\ last_sources' = last_sources]_vars

\* C16 witness: the unknown name is called while both tools hold citations
C16_Witness ==
    /\ last_op.op = "execute_tool"
    /\ last_op.name = "unknown_tool"
    /\ last_op.ret = "Tool 'unknown_tool' not found"
    /\ last_sources["s1"] # <<>>
    /\ last_sources["o1"] # <<>>

\* the instances the registry holds, in the order of their first registration
HeldInOrder ==
    SelectSeq(reg_order,
              LAMBDA inst : \E i \in 1..Len(tools) : tools[i].inst = inst)

\* C17 (as claimed): get_tool_definitions returns one definition per tool
\* the registry holds, in the order in which those tools were registered,
\* after any sequence of register_tool calls; a listing right after a
\* listing returns the same sequence.
C17_DefinitionsInRegistrationOrder ==
    last_op.op = "get_tool_definitions" =>
        /\ last_op.ret =
             [i \in 1..Len(HeldInOrder) |-> GetToolDefinition(HeldInOrder[i])]
        /\ last_op.again => last_op.ret = last_op.before

\* C18: each tool the registry holds has an entry in the listing whose name
\* is a key of the registry, and execute_tool with that name runs that very
\* instance: no other one, and never the not-found text.
C18_ListedNameDispatches ==
    /\ Len(GetToolDefinitions(tools)) = Len(tools)
    /\ \A i \in 1..Len(tools) :
         LET listed == GetToolDefinitions(tools)[i].name
         IN  /\ listed # None
             /\ listed[1] \in Names(tools)
             /\ (last_op.op = "execute_tool" /\ last_op.name = listed[1]) =>
                  /\ last_op.inst = Some(tools[i].inst)
                  /\ last_op.ret # "Tool '" \o listed[1] \o "' not found"

\* C18 witness: the search tool, registered third, is run by its listed name
\* in a registry where the second plain tool has taken the place of the first
C18_Witness ==
    /\ Len(tools) = 3
    /\ tools[1].inst = "p2"
    /\ tools[3].inst = "s1"
    /\ last_op.op = "execute_tool"
    /\ last_op.name = "search_course_content"
    /\ last_op.inst = Some("s1")

(***************************************************************************)
(* Properties of the search text and of the failure paths (under           *)
(* ToolSpec).                                                              *)
(***************************************************************************)
\* one rendered hit: its header, a newline, its document text
RenderedHit(meta, doc) ==
    (IF meta.lesson_number # None
     THEN "[" \o meta.course_title[1] \o " - Lesson "
              \o ToString(meta.lesson_number[1]) \o "]"
     ELSE "[" \o meta.course_title[1] \o "]")
        \o "\n" \o doc

RECURSIVE BlankLineJoined(_)
\* the texts of a sequence, each two neighbours separated by a blank line
BlankLineJoined(parts) ==
    IF Len(parts) = 0 THEN ""
    ELSE IF Len(parts) = 1 THEN parts[1]
    ELSE parts[1] \o "\n\n" \o BlankLineJoined(Tail(parts))

\* C22: the text a search with k hits (k >= 1, no error) returns is its k
\* rendered hits in the order returned, joined by a blank line; a rendered
\* hit is "[<course_title> - Lesson <n>]" when the hit's metadata carries a
\* lesson number (0 included) and "[<course_title>]" otherwise, then a
\* newline, then the hit's document text.
C22_SearchTextRendering ==
    SearchHit =>
        LET md == last_op.results.metadata
            docs == last_op.results.documents
        IN  /\ last_op.raised = None
            /\ last_op.ret =
                 BlankLineJoined([i \in 1..Len(docs) |->
                                    RenderedHit(md[i], docs[i])])

\* C22 witness: two hits, of lesson 0 and without a lesson number
C22_Witness ==
    /\ SearchHit
    /\ Len(last_op.results.documents) = 2
    /\ last_op.ret = "[MCP - Lesson 0]\ndoc1\n\n[Chroma]\ndoc2"

\* C26: an execute that returns through a failure path (a search whose
\* result carries an error; an outline of a course name that does not
\* resolve; an outline of a resolved course without catalog metadata) raises
\* nothing, makes no link lookup, and leaves the citation list of every
\* tool, its own included, as it was before the call.
C26_FailurePathsKeepCitations ==
    [][(/\ last_op'.op = "execute_tool"
        /\ \/ /\ last_op'.inst = Some("s1")
              /\ last_op'.results.error # None
           \/ /\ last_op'.inst = Some("o1")
              /\ \A i \in 1..Len(catalog) :
                   last_op'.args.course_name \in catalog[i].resolved_by
                     => catalog[i].metadatas = <<>>)
       => /\ last_op'.raised = None
          /\ last_op'.link_calls = <<>>
          /\ last_sources' = last_sources]_vars

\* C26 witness: the outline of a course without metadata has returned its
\* error text while both tools hold citations
C26_Witness ==
    /\ OutlineRan
    /\ last_op.args.course_name = "ghost"
    /\ last_op.ret = "Error: Unable to retrieve metadata for 'Ghost'"
    /\ last_op.link_calls = <<>>
    /\ last_sources["s1"] # <<>>
    /\ last_sources["o1"] # <<>>

(***************************************************************************)
(* Properties of a run at the grain of calls and returns (under            *)
(* SerialSpec).                                                            *)
(***************************************************************************)
\* the dispatches that were called and have not returned yet
InFlight == started - Len(dispatched)

\* C21: within one orchestrator run nothing overlaps: at most one dispatch
\* is in flight at any time (dispatch i+1 starts only after dispatch i has
\* returned), no dispatch starts before the first completion response (a
\* tool-use response) has been received, and once the second completion
\* request has been issued every invocation of the first response has been
\* started and has returned.
C21_NothingOverlaps ==
    /\ InFlight \in {0, 1}
    /\ pc \in {"INIT", "FIRST_CALL"} => started = 0
    /\ started > 0 =>
         /\ Len(responses) >= 1
         /\ IsToolUse(responses[1])
         /\ started <= Len(FirstInvocations)
    /\ Len(requests) = 2 =>
         /\ InFlight = 0
         /\ Len(dispatched) = Len(FirstInvocations)

\* the second of two invocations has been called after the first returned
C21_Witness ==
    /\ pc = "TOOL_EXECUTION"
    /\ Len(FirstInvocations) = 2
    /\ started = 2
    /\ Len(dispatched) = 1
    /\ Len(tool_results) = 1

(***************************************************************************)
(* Properties of two queries in progress at the same time (under           *)
(* ConcSpec).                                                              *)
(***************************************************************************)
\* C25 (as claimed): in every interleaving of two queries that go through
\* the same registry and the same tool instances, the citations a query
\* collects are exactly the Sources its own tool invocation produced: none
\* of the other query's, and none of its own lost to the other query's tool
\* execution or clear.
C25_QueriesCiteOnlyTheirOwn ==
    \A q \in Queries :
      queries[q].pc = "COLLECTED" =>
        queries[q].collected = queries[q].own

====
